---------------------------- MODULE Spec2Model ----------------------------
(***************************************************************************)
(* A model of the synthesis pipeline of gee4tts:                           *)
(*   - VolcanoTTSClient  (backend/app/services/volcano_client.py): the     *)
(*     binary frame parser, the receive loop, synthesize_to_file and       *)
(*     synthesize_stream, the emotion-voice registry;                      *)
(*   - CacheService      (backend/app/services/cache_service.py): the      *)
(*     in-memory cache (REDIS_AVAILABLE is forced to False) and the key    *)
(*     fingerprint;                                                        *)
(*   - TTSService        (backend/app/services/tts_service.py): the        *)
(*     orchestrator synthesize_text and the streaming variant.             *)
(*                                                                         *)
(* Bytes are naturals 0..255, byte strings are sequences of them.  An      *)
(* optional value (Python's None) is a sequence of length 0 or 1.  Time is *)
(* counted in ticks of half a second.                                      *)
(***************************************************************************)
EXTENDS Integers, Sequences, FiniteSets, TLC

(***************************************************************************)
(* Bounds of the model.                                                    *)
(***************************************************************************)
\* receives one stream call may perform before the provider must stop sending
MaxRecv == 3
\* number of calls started in one behaviour
MaxCalls == 2
\* number of clock advances in one behaviour
MaxTicks == 2
\* number of cache operations in one behaviour of the cache specification
MaxCacheOps == 3
\* number of argument swaps in one behaviour of the key specification
MaxSwaps == 2

\* half-second ticks in one second (the clock has sub-second resolution,
\* expire is a whole number of seconds)
TicksPerSecond == 2

\* Settings.CACHE_EXPIRE_SECONDS
CACHE_EXPIRE_SECONDS == 3600
\* settings.CACHE_ENABLED, at its default
CACHE_ENABLED == FALSE

None == << >>
Some(v) == << v >>
IsNone(o) == o = << >>
TheVal(o) == o[1]

Min(a, b) == IF a < b THEN a ELSE b

(***************************************************************************)
(* Python byte-string primitives used by _parse_response.                  *)
(***************************************************************************)
\* b[a:] : the slice from offset a (0-based), empty when a is past the end
SliceFrom(b, a) == IF a >= Len(b) THEN << >> ELSE SubSeq(b, a + 1, Len(b))

\* b[a:c] : clamped to the length of b
Slice(b, a, c) ==
    IF a >= Min(c, Len(b)) THEN << >> ELSE SubSeq(b, a + 1, Min(c, Len(b)))

\* int.from_bytes(b, "big", signed=False)
RECURSIVE IntFromBytesUnsigned(_)
IntFromBytesUnsigned(b) ==
    IF b = << >> THEN 0
    ELSE 256 * IntFromBytesUnsigned(SubSeq(b, 1, Len(b) - 1)) + b[Len(b)]

\* int.from_bytes(b, "big", signed=True) : two's complement over Len(b) bytes.
\* A value with the top bit set is -(complement) - 1, which stays within the
\* range of the model checker's integers for four bytes.
Complement(b) == [i \in 1..Len(b) |-> 255 - b[i]]
IntFromBytesSigned(b) ==
    IF b # << >> /\ b[1] >= 128
    THEN 0 - IntFromBytesUnsigned(Complement(b)) - 1
    ELSE IntFromBytesUnsigned(b)

\* gzip.compress / gzip.decompress, reduced to the two magic bytes 1f 8b in
\* front of the stored bytes: decompress raises on anything that does not
\* start with the magic.
GzipMagic == << 31, 139 >>
GzipCompress(b) == GzipMagic \o b
GzipOk(b) == Len(b) >= 2 /\ SubSeq(b, 1, 2) = GzipMagic
GzipDecompress(b) == SliceFrom(b, 2)

\* str(b, "utf-8"): the bytes f8..ff never occur in UTF-8, decoding them
\* raises UnicodeDecodeError.  The frames of this model carry ASCII or ff.
Utf8Ok(b) == \A i \in 1..Len(b) : b[i] < 248

(***************************************************************************)
(* VolcanoTTSClient._parse_response.  The result is a record:              *)
(*   raised = FALSE: the tuple (done, audio_chunk), audio an optional      *)
(*   raised = TRUE : the exception, exc its text                           *)
(* The text of "TTS API错误 {code}: {error_msg}" is kept as its parts.     *)
(***************************************************************************)
Returned(done, audio) ==
    [raised |-> FALSE, done |-> done, audio |-> audio, exc |-> << >>]
Raised(text) ==
    [raised |-> TRUE, done |-> FALSE, audio |-> None, exc |-> text]

ApiErrorText(code, msg) == << "TTS API error", code, msg >>

\* a parser that takes an error frame for a notice and goes on
ParseErrorFrameSkipped(payload, message_compression) == Returned(FALSE, None)

ParseErrorFrame(payload, message_compression) ==
    LET code      == IntFromBytesUnsigned(Slice(payload, 0, 4))
        error_msg == SliceFrom(payload, 8)
    IN  IF message_compression = 1 /\ ~GzipOk(error_msg)
        THEN Raised(<< "BadGzipFile" >>)
        ELSE LET msg == IF message_compression = 1
                        THEN GzipDecompress(error_msg) ELSE error_msg
             IN  IF ~Utf8Ok(msg) THEN Raised(<< "UnicodeDecodeError" >>)
                 ELSE Raised(ApiErrorText(code, msg))

\* a parser that reads an audio frame without looking at its flags
ParseAudioFrameIgnoresFlag(payload, message_type_specific_flags) ==
    Returned(IntFromBytesSigned(Slice(payload, 0, 4)) < 0, Some(SliceFrom(payload, 8)))

\* a parser that never reports the last chunk
ParseAudioFrameNeverDone(payload, message_type_specific_flags) ==
    IF message_type_specific_flags = 0 THEN Returned(FALSE, None)
    ELSE Returned(FALSE, Some(SliceFrom(payload, 8)))

ParseAudioFrame(payload, message_type_specific_flags) ==
    IF message_type_specific_flags = 0 THEN Returned(FALSE, None)
    ELSE LET sequence_number == IntFromBytesSigned(Slice(payload, 0, 4))
             audio_data      == SliceFrom(payload, 8)
         IN  Returned(sequence_number < 0, Some(audio_data))

ParseFrontendFrame(payload, message_compression) ==
    IF message_compression = 1 /\ ~GzipOk(SliceFrom(payload, 4))
    THEN Raised(<< "BadGzipFile" >>)
    ELSE Returned(FALSE, None)

_parse_response(response) ==
    IF Len(response) < 4 THEN Returned(FALSE, None)
    ELSE LET header_size                 == response[1] % 16
             message_type                == response[2] \div 16
             message_type_specific_flags == response[2] % 16
             message_compression         == response[3] % 16
             header_length               == header_size * 4
             payload                     == SliceFrom(response, header_length)
         IN  CASE message_type = 11 ->
                    ParseAudioFrame(payload, message_type_specific_flags)
               [] message_type = 15 ->
                    ParseErrorFrame(payload, message_compression)
               [] message_type = 12 ->
                    ParseFrontendFrame(payload, message_compression)
               [] OTHER -> Returned(FALSE, None)


(***************************************************************************)
(* Frames as the provider puts them on the wire: the layout that           *)
(* _parse_response reads back.  Header byte 0 is version 1 and the header  *)
(* size in words, byte 1 the message type and its flags, byte 2 the        *)
(* serialization and compression nibbles, byte 3 is reserved.              *)
(***************************************************************************)
U32(n) ==
    << (n \div 16777216) % 256, (n \div 65536) % 256, (n \div 256) % 256, n % 256 >>
\* a signed 32-bit value, two's complement
I32(n) == IF n < 0 THEN Complement(U32(0 - n - 1)) ELSE U32(n)

RECURSIVE Zeros(_)
Zeros(n) == IF n = 0 THEN << >> ELSE << 0 >> \o Zeros(n - 1)

FrameHeader(header_size, message_type, flags, compression) ==
    << 16 + header_size, 16 * message_type + flags, compression, 0 >>
        \o Zeros(4 * (header_size - 1))

AudioFrame(header_size, flags, seq, audio) ==
    FrameHeader(header_size, 11, flags, 0) \o I32(seq) \o U32(Len(audio)) \o audio

ErrorFrame(code, msg, compression) ==
    LET body == IF compression = 1 THEN GzipCompress(msg) ELSE msg
    IN  FrameHeader(1, 15, 0, compression) \o U32(code) \o U32(Len(body)) \o body

FrontendFrame(body, compression) ==
    LET b == IF compression = 1 THEN GzipCompress(body) ELSE body
    IN  FrameHeader(1, 12, 0, compression) \o U32(Len(b)) \o b

(***************************************************************************)
(* What one receive can bring: a frame, a receive timeout, or the          *)
(* connection closed by the peer.  Beside the bytes handed to the parser   *)
(* an event carries what the provider meant by them (kind, flags, seq,     *)
(* audio, code, msg), which only the properties read.                      *)
(***************************************************************************)
Ev(ev, bytes, kind, flags, seq, audio, code, msg) ==
    [ev |-> ev, bytes |-> bytes, kind |-> kind, flags |-> flags, seq |-> seq,
     audio |-> audio, code |-> code, msg |-> msg]

AudioEv(hs, flags, seq, audio) ==
    Ev("frame", AudioFrame(hs, flags, seq, audio), "audio", flags, seq, audio, 0, << >>)
ErrorEv(code, msg, compression) ==
    Ev("frame", ErrorFrame(code, msg, compression), "error", 0, 0, << >>, code, msg)
FrontendEv(body, compression) ==
    Ev("frame", FrontendFrame(body, compression), "frontend", 0, 0, << >>, 0, << >>)
ShortEv(bytes) == Ev("frame", bytes, "short", 0, 0, << >>, 0, << >>)
TimeoutEv == Ev("timeout", << >>, "timeout", 0, 0, << >>, 0, << >>)
ClosedEv  == Ev("closed", << >>, "closed", 0, 0, << >>, 0, << >>)

\* "inv": the first letters of "invalid text"
MsgInvalid == << 105, 110, 118 >>

\* an audio chunk with data (flags # 0)
IsDataFrame(e) == e.kind = "audio" /\ e.flags # 0
\* an audio frame whose flags are 0: it carries no data
IsNoData(e) == e.kind = "audio" /\ e.flags = 0
\* the terminal chunk: a frame with data whose sequence number is negative
IsTerminal(e) == IsDataFrame(e) /\ e.seq < 0
IsEnd(e) == e.ev \in {"timeout", "closed"}

\* the events of the client specification
ClientEvents ==
    { AudioEv(1, 1, 1, << 7 >>),        \* a chunk with data
      AudioEv(1, 1, 2, << >>),          \* a chunk with data of length 0
      AudioEv(2, 2, 3, << 8 >>),        \* the same under a two-word header
      AudioEv(1, 3, -1, << 9 >>),       \* the terminal chunk
      AudioEv(1, 3, -2, << >>),         \* a terminal chunk without audio
      AudioEv(1, 0, -1, << 5 >>),       \* flag 0: no data
      ErrorEv(45000, MsgInvalid, 0),
      ErrorEv(45001, MsgInvalid, 1),
      FrontendEv(<< 123, 125 >>, 1),
      ShortEv(<< 17, 177 >>),
      TimeoutEv, ClosedEv }

\* the events of the service specification
ServiceEvents ==
    { AudioEv(1, 3, -1, << 9, 9 >>), ErrorEv(45000, MsgInvalid, 0), TimeoutEv }

(***************************************************************************)
(* The emotion-voice registry of VolcanoTTSClient.                         *)
(***************************************************************************)
EmoVoice     == "zh_female_shuangkuaisisi_emo_v2_mars_bigtts"
GenericVoice == "generic_voice_01"

_get_default_emotion_voices ==
    << "zh_male_beijingxiaoye_emo_v2_mars_bigtts",
       "zh_female_roumeinvyou_emo_v2_mars_bigtts",
       "zh_male_yangguangqingnian_emo_v2_mars_bigtts",
       "zh_female_meilinvyou_emo_v2_mars_bigtts",
       "zh_female_shuangkuaisisi_emo_v2_mars_bigtts" >>

\* voice_presets_complete.json as the loader sees it: found or not, parsable
\* or not, and the list under emotion_config.emotion_voices
ConfigDoc(found, parsable, voices) ==
    [found |-> found, parsable |-> parsable, emotion_voices |-> voices]

ConfigDocs ==
    { ConfigDoc(FALSE, FALSE, << >>),
      ConfigDoc(TRUE, FALSE, << >>),
      ConfigDoc(TRUE, TRUE, << >>),
      ConfigDoc(TRUE, TRUE, << GenericVoice >>),
      ConfigDoc(TRUE, TRUE, << GenericVoice, EmoVoice >>) }

_load_emotion_voices(doc) ==
    IF ~doc.found THEN _get_default_emotion_voices
    ELSE IF ~doc.parsable THEN _get_default_emotion_voices
    ELSE IF doc.emotion_voices # << >> THEN doc.emotion_voices
    ELSE _get_default_emotion_voices

\* voice_type in self.emotion_voices
supports_emotion(voices, voice_type) ==
    \E i \in 1..Len(voices) : voices[i] = voice_type

\* a reload that refills the installed list object in place: cleared, then
\* one voice appended after the other
InstallStoresInPlace(old, new) ==
    << [list |-> << >>, fresh |-> FALSE] >>
        \o [i \in 1..Len(new) |-> [list |-> SubSeq(new, 1, i), fresh |-> FALSE]]

\* the stores by which reload_emotion_voices makes the list it loaded
\* visible: `self.emotion_voices = <the new list>`, one store of a reference
\* to a list object no reader holds yet
InstallStores(old, new) == << [list |-> new, fresh |-> TRUE] >>

(***************************************************************************)
(* Requests.  The ratios are kept in tenths (10 is 1.0); emotion is an     *)
(* optional string.                                                        *)
(***************************************************************************)
Request(text, voice_id, speed, volume, pitch, format, emotion) ==
    [text |-> text, voice_id |-> voice_id, speed |-> speed, volume |-> volume,
     pitch |-> pitch, format |-> format, emotion |-> emotion]

\* Python's truth value of an Optional[str]: None and "" are false
Truthy(o) == ~IsNone(o) /\ TheVal(o) # ""

\* `emotion or "neutral"`
EmotionOrNeutral(o) == IF Truthy(o) THEN TheVal(o) ELSE "neutral"

ClientRequests ==
    { Request("hello", v, 10, 10, 10, "mp3", e) :
        v \in {EmoVoice, GenericVoice}, e \in {None, Some("happy"), Some("")} }

ServiceRequests ==
    { Request("hello", GenericVoice, 10, 10, 10, "mp3", None),
      Request("hello", GenericVoice, 10, 10, 10, "mp3", Some("neutral")),
      Request("hello", EmoVoice, 10, 15, 10, "wav", Some("happy")) }

(***************************************************************************)
(* CacheService.generate_cache_key.  kwargs is the sequence of (name,      *)
(* value) pairs in the order the caller wrote them; a value is a string or *)
(* a float in tenths.                                                      *)
(***************************************************************************)
StrVal(s)   == [t |-> "str", s |-> s, f |-> 0]
FloatVal(f) == [t |-> "float", s |-> "", f |-> f]

DigitStr == << "0", "1", "2", "3", "4", "5", "6", "7", "8", "9" >>
\* str() of a float with one decimal, e.g. 1.0 -> "1.0"
FloatStr(f) == DigitStr[(f \div 10) + 1] \o "." \o DigitStr[(f % 10) + 1]
\* the text f"{v}" puts in the key
PyStr(v) == IF v.t = "float" THEN FloatStr(v.f) ELSE v.s

\* the order of Python's string comparison on the keyword names in use
NameOrder ==
    << "emotion", "format", "pitch", "speed", "text", "voice_id", "volume" >>
NameRank(k) == CHOOSE i \in 1..Len(NameOrder) : NameOrder[i] = k

\* insert pair p into the sorted sequence s
RECURSIVE InsertSorted(_, _)
InsertSorted(p, s) ==
    IF s = << >> THEN << p >>
    ELSE IF NameRank(p[1]) < NameRank(s[1][1]) THEN << p >> \o s
    ELSE << s[1] >> \o InsertSorted(p, Tail(s))

\* the items left in the order they were passed
UnsortedItems(kwargs) == kwargs

\* sorted(kwargs.items())
RECURSIVE SortedItems(_)
SortedItems(kwargs) ==
    IF kwargs = << >> THEN << >>
    ELSE InsertSorted(kwargs[1], SortedItems(Tail(kwargs)))

\* "|".join(parts)
RECURSIVE Join(_)
Join(parts) ==
    IF Len(parts) = 1 THEN parts[1]
    ELSE parts[1] \o "|" \o Join(Tail(parts))

\* hashlib.md5(...).hexdigest(): an injective function of the text
Md5Hex(text) == "md5<" \o text \o ">"

KeyParts(prefix, items) ==
    << prefix >> \o [i \in 1..Len(items) |-> items[i][1] \o ":" \o PyStr(items[i][2])]

KeyString(prefix, kwargs) == Join(KeyParts(prefix, SortedItems(kwargs)))

generate_cache_key(prefix, kwargs) ==
    prefix \o ":" \o Md5Hex(KeyString(prefix, kwargs))

\* the keyword arguments of the call in TTSService.synthesize_text
KeyArgs(request) ==
    << << "text", StrVal(request.text) >>,
       << "voice_id", StrVal(request.voice_id) >>,
       << "speed", FloatVal(request.speed) >>,
       << "volume", FloatVal(request.volume) >>,
       << "pitch", FloatVal(request.pitch) >>,
       << "format", StrVal(request.format) >>,
       << "emotion", StrVal(EmotionOrNeutral(request.emotion)) >> >>

CacheKeyOf(request) == generate_cache_key("tts", KeyArgs(request))

(***************************************************************************)
(* CacheService, the in-memory branch.  The cache is a function from the   *)
(* keys present to [data, expires_at]; stats is cache_stats.               *)
(***************************************************************************)
EmptyCache == [k \in {} |-> 0]
Without(cache, keys) == [k \in (DOMAIN cache) \ keys |-> cache[k]]
Bump(stats, field) == [stats EXCEPT ![field] = @ + 1]

\* a get that never looks at expires_at
CacheGetNoExpiry(cache, stats, key, t) ==
    IF key \in DOMAIN cache
    THEN [value |-> Some(cache[key].data), cache |-> cache,
          stats |-> Bump(stats, "hits"), raised |-> FALSE]
    ELSE [value |-> None, cache |-> cache, stats |-> Bump(stats, "misses"),
          raised |-> FALSE]

\* a get that removes every expired entry when it meets one
CacheGetCleansAll(cache, stats, key, t) ==
    IF key \in DOMAIN cache /\ cache[key].expires_at > t
    THEN [value |-> Some(cache[key].data), cache |-> cache,
          stats |-> Bump(stats, "hits"), raised |-> FALSE]
    ELSE IF key \in DOMAIN cache
    THEN [value |-> None,
          cache |-> Without(cache, {k \in DOMAIN cache : cache[k].expires_at <= t}),
          stats |-> Bump(stats, "misses"), raised |-> FALSE]
    ELSE [value |-> None, cache |-> cache, stats |-> Bump(stats, "misses"),
          raised |-> FALSE]

\* CacheService.get: the value returned (optional), the cache and the stats
\* after the call
CacheGet(cache, stats, key, t) ==
    IF key \in DOMAIN cache /\ cache[key].expires_at > t
    THEN [value |-> Some(cache[key].data), cache |-> cache,
          stats |-> Bump(stats, "hits"), raised |-> FALSE]
    ELSE IF key \in DOMAIN cache
    THEN [value |-> None, cache |-> Without(cache, {key}),
          stats |-> Bump(stats, "misses"), raised |-> FALSE]
    ELSE [value |-> None, cache |-> cache, stats |-> Bump(stats, "misses"),
          raised |-> FALSE]

\* `expire or settings.CACHE_EXPIRE_SECONDS`: None and 0 select the default
ExpireOrDefault(expire) ==
    IF IsNone(expire) \/ TheVal(expire) = 0 THEN CACHE_EXPIRE_SECONDS
    ELSE TheVal(expire)

ExpiresAt(expire, t) == t + TicksPerSecond * ExpireOrDefault(expire)

\* _cleanup_expired_memory_cache
CleanupExpired(cache, t) ==
    Without(cache, {k \in DOMAIN cache : cache[k].expires_at <= t})

\* a set that updates the data of an entry it finds and keeps its expiry
CacheSetKeepExpiry(cache, stats, key, value, expire, t) ==
    LET item == [data |-> value,
                 expires_at |-> IF key \in DOMAIN cache THEN cache[key].expires_at
                                ELSE ExpiresAt(expire, t)]
        put  == [k \in (DOMAIN cache) \cup {key} |->
                    IF k = key THEN item ELSE cache[k]]
    IN  [cache |-> CleanupExpired(put, t), stats |-> Bump(stats, "sets"),
         raised |-> FALSE]

\* a set that writes into the dict of an entry it finds, field by field, and
\* leaves the file_url it finds there
CacheSetMergeFields(cache, stats, key, value, expire, t) ==
    LET data == IF key \in DOMAIN cache
                THEN [f \in DOMAIN value |->
                         IF f = "file_url" THEN cache[key].data[f] ELSE value[f]]
                ELSE value
        item == [data |-> data, expires_at |-> ExpiresAt(expire, t)]
        put  == [k \in (DOMAIN cache) \cup {key} |->
                    IF k = key THEN item ELSE cache[k]]
    IN  [cache |-> CleanupExpired(put, t), stats |-> Bump(stats, "sets"),
         raised |-> FALSE]

\* CacheService.set
CacheSet(cache, stats, key, value, expire, t) ==
    LET item == [data |-> value, expires_at |-> ExpiresAt(expire, t)]
        put  == [k \in (DOMAIN cache) \cup {key} |->
                    IF k = key THEN item ELSE cache[k]]
    IN  [cache |-> CleanupExpired(put, t), stats |-> Bump(stats, "sets"),
         raised |-> FALSE]

\* a get whose failure is not caught
CacheGetRaises(cache, stats, key, t) ==
    [value |-> None, cache |-> cache, stats |-> stats, raised |-> TRUE]

\* CacheService.get when the lookup raises: the except branch counts a miss
\* and returns None
CacheGetFailed(cache, stats, key, t) ==
    [value |-> None, cache |-> cache, stats |-> Bump(stats, "misses"),
     raised |-> FALSE]

\* CacheService.set when storing raises: the except branch returns False,
\* nothing is stored and nothing is counted
CacheSetFailed(cache, stats, key, value, expire, t) ==
    [cache |-> cache, stats |-> stats, raised |-> FALSE]

\* CacheService.set when the cleanup after the store raises: the entry is in
\* place, expired entries stay, nothing is counted
CacheSetFailedInCleanup(cache, stats, key, value, expire, t) ==
    LET item == [data |-> value, expires_at |-> ExpiresAt(expire, t)]
    IN  [cache |-> [k \in (DOMAIN cache) \cup {key} |->
                       IF k = key THEN item ELSE cache[k]],
         stats |-> stats, raised |-> FALSE]

\* CacheService.delete
CacheDelete(cache, stats, key) ==
    [cache |-> Without(cache, {key}), stats |-> Bump(stats, "deletes")]

(***************************************************************************)
(* State.                                                                  *)
(***************************************************************************)
VARIABLES
    calls,          \* the calls, by slot: position, locals, connection
    files,          \* the files under AUDIO_FILES_PATH: path -> bytes
    memory_cache,   \* CacheService.memory_cache
    cache_stats,    \* CacheService.cache_stats
    now,            \* datetime.utcnow(), in ticks
    ticks,          \* clock advances so far
    next_uuid,      \* the next value uuid.uuid4() returns
    started,        \* calls started so far
    results,        \* the results synthesize_text has returned, in order
    populated,      \* cache key -> the response whose metadata was last cached
    emotion_voices, \* VolcanoTTSClient.emotion_voices
    voice_config,   \* voice_presets_complete.json on disk
    cache_ops,      \* cache specification: operations so far
    last_set,       \* cache specification: key -> the last set not yet deleted,
                    \*   and whether it replaced a live entry with another
                    \*   value and another expiry
    last_get,       \* cache specification: the last get and what it returned
    kw_req,         \* key specification: the request
    kw_order,       \* key specification: its keyword arguments as passed
    kw_key,         \* key specification: the key generate_cache_key returned
    svc_keys,       \* key specification: (parameters, key) of the service's calls
    swaps,          \* key specification: argument swaps so far
    reload,         \* a reload_emotion_voices in progress
    lookup,         \* a supports_emotion in progress
    voice_cache,    \* TTSService._voice_cache (optional)
    voice_loaded,   \* the categories as _load_voice_data built them
    last_list       \* the response of the last voice-list request (optional)

vars == << calls, files, memory_cache, cache_stats, now, ticks, next_uuid,
           started, results, populated, emotion_voices, voice_config, cache_ops, last_set, last_get,
           kw_req, kw_order, kw_key, svc_keys, swaps, reload, lookup,
           voice_cache, voice_loaded, last_list >>

cacheSpecVars == << cache_ops, last_set, last_get >>
keySpecVars   == << kw_req, kw_order, kw_key, svc_keys, swaps >>
voiceVars     == << voice_cache, voice_loaded, last_list >>
registryVars  == << emotion_voices, voice_config, reload, lookup, voiceVars >>
cacheVars     == << memory_cache, cache_stats >>
clockVars     == << now, ticks >>
logVars       == << started, results, populated >>

\* the slots a call can run in; a slot is taken again once its call has ended
Calls == {1, 2}

\* between two calls the clock moves by half the default expiry: a second
\* call finds the entry of the first still valid, a third finds it expired
HalfExpiry == (TicksPerSecond * CACHE_EXPIRE_SECONDS) \div 2

(***************************************************************************)
(* A call slot.  kind is "text" (TTSService.synthesize_text, which calls   *)
(* synthesize_to_file) or "stream" (TTSService.synthesize_stream, which    *)
(* iterates VolcanoTTSClient.synthesize_stream).  gen is the state of the  *)
(* async generator _synthesize_stream, yielded the chunks it has yielded,   *)
(* audio_data the bytearray of synthesize_to_file, forwarded the chunks     *)
(* TTSService.synthesize_stream has yielded to its consumer.  terminal_seen, error_seen, ended,  *)
(* end_cause, expected and after_end record what the provider did,         *)
(* had_entry whether the cache held an unexpired entry for the key when    *)
(* the call began, voices_at_build the registry when the wire request was  *)
(* built, get_failed and set_failed whether the cache lookup and the cache  *)
(* write of the call failed, short_seen whether a frame of fewer than four *)
(* bytes arrived, cache_before the cache as synthesize_text found it; they *)
(* are read by the properties only.                                        *)
(***************************************************************************)
IdleCall ==
    [pc |-> "idle", kind |-> "none", request |-> None, user_id |-> None,
     cache_key |-> "", request_id |-> 0, file_path |-> None,
     request_json |-> None, conn |-> "none", opened |-> 0, sent |-> << >>,
     nrecv |-> 0, gen |-> "none", yielded |-> << >>, audio_data |-> << >>,
     forwarded |-> << >>,
     start_time |-> 0, result |-> None, response |-> None, error |-> << >>,
     hit |-> FALSE, had_entry |-> FALSE, voices_at_build |-> << >>,
     get_failed |-> FALSE, set_failed |-> FALSE, short_seen |-> FALSE, nodata_seen |-> FALSE,
     cache_before |-> << >>,
     terminal_seen |-> FALSE, error_seen |-> None, ended |-> FALSE,
     end_cause |-> "", expected |-> << >>, after_end |-> 0]

Active(c) == calls[c].pc \in {"connecting", "sending", "receiving",
                               "persisting", "probing"}
\* the slot is free: no call yet, or its call has returned or raised
Free(c) == ~Active(c)

\* f"tts_{request_id}.{format_str}"
FileName(request_id, format) ==
    [prefix |-> "tts_", request_id |-> request_id, ext |-> format]
\* os.path.join(settings.AUDIO_FILES_PATH, filename)
FilePath(filename) == [dir |-> "./audio_files", name |-> filename]
\* f"/audio/{filename}"
FileUrl(filename) == [dir |-> "/audio/", name |-> filename]

\* Exception(f"<prefix>: {str(e)}")
Wrap(prefix, exc) == << prefix, exc >>

RECURSIVE Flatten(_)
Flatten(chunks) ==
    IF chunks = << >> THEN << >> ELSE chunks[1] \o Flatten(Tail(chunks))

(***************************************************************************)
(* The wire request built by synthesize_to_file and synthesize_stream.     *)
(***************************************************************************)
\* the emotion added whenever the request has one
EmotionIncludedUnchecked(emotion, voices, voice_type) == Truthy(emotion)

\* `if emotion and self.supports_emotion(voice_type)`
EmotionIncluded(emotion, voices, voice_type) ==
    Truthy(emotion) /\ supports_emotion(voices, voice_type)

BuildRequestJson(reqid, uid, request, voices) ==
    LET app   == [appid |-> "VOLCANO_APP_ID", token |-> "VOLCANO_ACCESS_TOKEN",
                  cluster |-> "volcano_tts"]
        user  == [uid |-> uid]
        audio == [voice_type |-> request.voice_id, encoding |-> request.format,
                  speed_ratio |-> request.speed, volume_ratio |-> request.volume,
                  pitch_ratio |-> request.pitch]
    IN  IF EmotionIncluded(request.emotion, voices, request.voice_id)
        THEN [app |-> app, user |-> user, audio |-> audio,
              request |-> [reqid |-> reqid, text |-> request.text,
                           text_type |-> "plain", operation |-> "submit",
                           emotion |-> TheVal(request.emotion)]]
        ELSE [app |-> app, user |-> user, audio |-> audio,
              request |-> [reqid |-> reqid, text |-> request.text,
                           text_type |-> "plain", operation |-> "submit"]]

(***************************************************************************)
(* VolcanoTTSClient._synthesize_stream: connect, send, receive loop.       *)
(***************************************************************************)
\* the exception leaves the call: synthesize_to_file and synthesize_text each
\* wrap it; TTSService.synthesize_stream wraps it once
FailCall(call, exc) ==
    IF call.kind = "text"
    THEN [call EXCEPT !.pc = "failed",
                      !.error = Wrap("synthesis failed", Wrap("synthesis failed", exc))]
    ELSE [call EXCEPT !.pc = "stream_failed",
                      !.error = Wrap("stream synthesis failed", exc)]

\* websockets.connect succeeds
Connect(c) ==
    /\ calls[c].pc = "connecting"
    /\ calls' = [calls EXCEPT ![c] =
                    [@ EXCEPT !.pc = "sending", !.conn = "open",
                              !.opened = @ + 1, !.gen = "running"]]
    /\ UNCHANGED << files, cacheVars, clockVars, next_uuid, registryVars,
                    cacheSpecVars, keySpecVars, logVars >>

\* websockets.connect raises
ConnectFail(c) ==
    /\ calls[c].pc = "connecting"
    /\ calls' = [calls EXCEPT ![c] =
                    FailCall([@ EXCEPT !.gen = "raised", !.ended = TRUE,
                                       !.end_cause = "connect_failed"],
                             << "ConnectError" >>)]
    /\ UNCHANGED << files, cacheVars, clockVars, next_uuid, registryVars,
                    cacheSpecVars, keySpecVars, logVars >>

\* a send that puts the request frame on the wire twice
SendTwice(c) ==
    /\ calls[c].pc = "sending"
    /\ calls' = [calls EXCEPT ![c] =
                    [@ EXCEPT !.pc = "receiving",
                              !.sent = @ \o << TheVal(calls[c].request_json),
                                               TheVal(calls[c].request_json) >>]]
    /\ UNCHANGED << files, cacheVars, clockVars, next_uuid, registryVars,
                    cacheSpecVars, keySpecVars, logVars >>

\* await websocket.send(full_client_request)
Send(c) ==
    /\ calls[c].pc = "sending"
    /\ calls' = [calls EXCEPT ![c] =
                    [@ EXCEPT !.pc = "receiving",
                              !.sent = Append(@, TheVal(calls[c].request_json))]]
    /\ UNCHANGED << files, cacheVars, clockVars, next_uuid, registryVars,
                    cacheSpecVars, keySpecVars, logVars >>

\* send raises: the async with closes the connection, the exception leaves
SendFail(c) ==
    /\ calls[c].pc = "sending"
    /\ calls' = [calls EXCEPT ![c] =
                    FailCall([@ EXCEPT !.gen = "raised", !.conn = "closed",
                                       !.ended = TRUE, !.end_cause = "send_failed"],
                             << "ConnectionClosed" >>)]
    /\ UNCHANGED << files, cacheVars, clockVars, next_uuid, registryVars,
                    cacheSpecVars, keySpecVars, logVars >>

\* `if audio_chunk:` : None and b"" are not yielded
YieldsChunk(r) == ~r.raised /\ ~IsNone(r.audio) /\ TheVal(r.audio) # << >>

\* the loop is left: `if done: break`, or on TimeoutError / ConnectionClosed
LoopBreaks(e, r) == IsEnd(e) \/ r.done

\* what the provider did, for the properties
Observe(call, e) ==
    LET live == ~call.ended
    IN  [call EXCEPT
           !.after_end = IF live THEN @ ELSE @ + 1,
           !.expected = IF live /\ IsDataFrame(e) THEN @ \o e.audio ELSE @,
           !.terminal_seen = @ \/ (live /\ IsTerminal(e)),
           !.short_seen = @ \/ (live /\ e.ev = "frame" /\ Len(e.bytes) < 4),
           !.nodata_seen = @ \/ (live /\ IsNoData(e)),
           !.error_seen = IF live /\ e.kind = "error" THEN Some(e) ELSE @,
           !.end_cause = IF ~live THEN @
                         ELSE IF IsTerminal(e) THEN "terminal"
                         ELSE IF e.kind = "error" THEN "error"
                         ELSE IF IsEnd(e) THEN e.ev
                         ELSE @,
           !.ended = @ \/ IsTerminal(e) \/ e.kind = "error" \/ IsEnd(e)]

\* one pass of the receive loop, with the consumer's handling of the chunk
RecvStep(call, e) ==
    LET r     == IF IsEnd(e) THEN Returned(FALSE, None) ELSE _parse_response(e.bytes)
        chunk == IF YieldsChunk(r) THEN << TheVal(r.audio) >> ELSE << >>
        seen  == [Observe(call, e) EXCEPT
                    !.nrecv = @ + 1,
                    !.yielded = @ \o chunk,
                    !.audio_data = IF call.kind = "text"
                                   THEN @ \o Flatten(chunk) ELSE @,
                    !.forwarded = IF call.kind = "stream"
                                  THEN @ \o chunk ELSE @]
    IN  IF r.raised
        THEN FailCall([seen EXCEPT !.gen = "raised", !.conn = "closed",
                                   !.ended = TRUE], r.exc)
        ELSE IF LoopBreaks(e, r)
        THEN [seen EXCEPT !.gen = "returned", !.conn = "closed",
                          !.pc = IF call.kind = "text" THEN "persisting"
                                 ELSE "stream_done"]
        ELSE seen

Recv(c, e) ==
    /\ calls[c].pc = "receiving"
    /\ e.ev = "frame" => calls[c].nrecv < MaxRecv
    /\ calls' = [calls EXCEPT ![c] = RecvStep(@, e)]
    /\ UNCHANGED << files, cacheVars, clockVars, next_uuid, registryVars,
                    cacheSpecVars, keySpecVars, logVars >>

\* the consumer of a streaming call stops iterating after a chunk (it breaks
\* out of its `async for`, or is cancelled while it handles the chunk).  The
\* generators stay suspended at their `yield`: nothing in the chain
\* (endpoint, TTSService.synthesize_stream, VolcanoTTSClient.synthesize_stream,
\* _synthesize_stream) closes the generator it iterates, so the `async with`
\* of _synthesize_stream is not left and the connection stays open.
Abandon(c) ==
    /\ calls[c].pc = "receiving"
    /\ calls[c].kind = "stream"
    /\ calls[c].forwarded # << >>
    /\ calls' = [calls EXCEPT ![c] =
                    [@ EXCEPT !.pc = "abandoned", !.gen = "suspended",
                              !.ended = TRUE, !.end_cause = "abandoned"]]
    /\ UNCHANGED << files, cacheVars, clockVars, next_uuid, registryVars,
                    cacheSpecVars, keySpecVars, logVars >>

\* the suspended generator is garbage-collected: the event loop's finalizer
\* runs aclose(), GeneratorExit leaves the `async with`, the connection is
\* closed
Finalize(c) ==
    /\ calls[c].pc = "abandoned"
    /\ calls[c].gen = "suspended"
    /\ calls' = [calls EXCEPT ![c] = [@ EXCEPT !.gen = "closed", !.conn = "closed"]]
    /\ UNCHANGED << files, cacheVars, clockVars, next_uuid, registryVars,
                    cacheSpecVars, keySpecVars, logVars >>

\* the task of the call is cancelled while it awaits recv(): CancelledError
\* is no Exception, passes every except branch and leaves the `async with`,
\* which closes the connection
Cancel(c) ==
    /\ calls[c].pc = "receiving"
    /\ calls' = [calls EXCEPT ![c] =
                    [@ EXCEPT !.pc = "cancelled", !.gen = "raised",
                              !.conn = "closed", !.ended = TRUE,
                              !.end_cause = "cancelled",
                              !.error = << "CancelledError" >>]]
    /\ UNCHANGED << files, cacheVars, clockVars, next_uuid, registryVars,
                    cacheSpecVars, keySpecVars, logVars >>

\* frames that bring the consumer nothing and do not end the loop: no-data
\* frames, notices, non-final chunks without audio
QuietEvents ==
    { AudioEv(1, 0, -1, << 5 >>), FrontendEv(<< 123, 125 >>, 1),
      AudioEv(1, 1, 2, << >>) }

\* one more pass of the receive loop after MaxRecv passes.  The loop has no
\* bound of its own: from MaxRecv on nrecv keeps only the parity of the
\* count, so that a loop which never ends is a cycle of states.
RecvAgain(c, e) ==
    /\ calls[c].pc = "receiving"
    /\ calls[c].nrecv >= MaxRecv
    /\ calls' = [calls EXCEPT ![c] =
                    [RecvStep(@, e) EXCEPT
                        !.nrecv = MaxRecv + ((calls[c].nrecv - MaxRecv + 1) % 2)]]
    /\ UNCHANGED << files, cacheVars, clockVars, next_uuid, registryVars,
                    cacheSpecVars, keySpecVars, logVars >>

(***************************************************************************)
(* VolcanoTTSClient.synthesize_to_file after the stream: write the file,   *)
(* build the result.                                                       *)
(***************************************************************************)
WriteFile(fs, path, bytes) ==
    [p \in (DOMAIN fs) \cup {path} |-> IF p = path THEN bytes ELSE fs[p]]

\* a result that counts the eight bytes of sequence number and size of each
\* chunk's payload into the file size
ToFileResultPayload(call, t) ==
    [request_id |-> TheVal(call.request_json).request.reqid,
     file_path |-> TheVal(call.file_path),
     file_size |-> Len(call.audio_data) + 8 * Len(call.yielded),
     synthesis_time |-> t - call.start_time,
     created_at |-> call.start_time,
     status |-> "success"]

ToFileResult(call, t) ==
    [request_id |-> TheVal(call.request_json).request.reqid,
     file_path |-> TheVal(call.file_path),
     file_size |-> Len(call.audio_data),
     synthesis_time |-> t - call.start_time,
     created_at |-> call.start_time,
     status |-> "success"]

\* open(output_path, 'wb') and f.write(audio_data) succeed
Persist(c) ==
    /\ calls[c].pc = "persisting"
    /\ files' = WriteFile(files, TheVal(calls[c].file_path), calls[c].audio_data)
    /\ calls' = [calls EXCEPT ![c] =
                    [@ EXCEPT !.pc = "probing",
                              !.result = Some(ToFileResult(calls[c], now))]]
    /\ UNCHANGED << cacheVars, clockVars, next_uuid, registryVars,
                    cacheSpecVars, keySpecVars, logVars >>

\* open raises (no such directory, no permission): nothing is created
PersistFailOpen(c) ==
    /\ calls[c].pc = "persisting"
    /\ calls' = [calls EXCEPT ![c] = FailCall(@, << "OSError", "open" >>)]
    /\ UNCHANGED << files, cacheVars, clockVars, next_uuid, registryVars,
                    cacheSpecVars, keySpecVars, logVars >>

\* open has created the file and write raises (disk full): the file stays,
\* holding the first n bytes
PersistFailWrite(c, n) ==
    /\ calls[c].pc = "persisting"
    /\ n < Len(calls[c].audio_data)
    /\ files' = WriteFile(files, TheVal(calls[c].file_path),
                          SubSeq(calls[c].audio_data, 1, n))
    /\ calls' = [calls EXCEPT ![c] = FailCall(@, << "OSError", "write" >>)]
    /\ UNCHANGED << cacheVars, clockVars, next_uuid, registryVars,
                    cacheSpecVars, keySpecVars, logVars >>

(***************************************************************************)
(* TTSService.synthesize_text.                                             *)
(***************************************************************************)
\* the cache key of a call: lines 45-54, evaluated before any request id is
\* drawn; user_id, the clock and the uuid source are in scope and unused
SynthesizeTextKey(request, user_id, t, uuid) == CacheKeyOf(request)

\* `if cached_result:` : an empty dict is false
DictTruthy(d) == DOMAIN d # {}

\* a hit branch that keeps the cached request id
HitFieldsKeepId(cached, request_id, t) ==
    LET added == [created_at |-> t,
                  file_path |-> FilePath(FileName(cached.request_id, cached.format))]
    IN  [f \in (DOMAIN cached) \cup (DOMAIN added) |->
            IF f \in DOMAIN added THEN added[f] ELSE cached[f]]

\* a hit branch that reports the size of a file it has not got
HitFieldsNoSize(cached, request_id, t) ==
    LET added == [request_id |-> request_id, created_at |-> t, file_size |-> 0,
                  file_path |-> FilePath(FileName(request_id, cached.format))]
    IN  [f \in (DOMAIN cached) \cup (DOMAIN added) |->
            IF f \in DOMAIN added THEN added[f] ELSE cached[f]]

\* the cache-hit branch: the cached dict is updated in place and returned as
\* the response
HitFields(cached, request_id, t) ==
    LET filename == FileName(request_id,
                             IF "format" \in DOMAIN cached THEN cached.format ELSE "mp3")
        added    == [request_id |-> request_id, created_at |-> t,
                     file_path |-> FilePath(filename)]
    IN  [f \in (DOMAIN cached) \cup (DOMAIN added) |->
            IF f \in DOMAIN added THEN added[f] ELSE cached[f]]

\* TTSResponse(...) of the miss branch
BuildResponse(call, duration, t) ==
    LET request  == TheVal(call.request)
        filename == FileName(call.request_id, request.format)
    IN  [request_id |-> call.request_id,
         text |-> request.text,
         voice_id |-> request.voice_id,
         file_path |-> TheVal(call.file_path),
         file_url |-> FileUrl(filename),
         file_size |-> TheVal(call.result).file_size,
         duration |-> duration,
         format |-> request.format,
         synthesis_time |-> TheVal(call.result).synthesis_time,
         created_at |-> t,
         status |-> "success"]

\* cache_data = response.dict(); cache_data.pop("file_path", None)
CacheData(response) == [f \in (DOMAIN response) \ {"file_path"} |-> response[f]]

\* synthesize_text up to its first suspension: the key, the cache read, and
\* either the hit branch (which returns) or the request id, the output path
\* and the wire request of synthesize_to_file
\* got is what CacheService.get returned for the key of the call
StartTextWith(c, request, user_id, got, lookup_failed) ==
    /\ Free(c)
    /\ started < MaxCalls
    /\ started' = started + 1
    /\ LET key == SynthesizeTextKey(request, user_id, now, next_uuid)
           base == [IdleCall EXCEPT !.kind = "text", !.request = Some(request),
                                    !.get_failed = lookup_failed,
                                    !.cache_before = memory_cache,
                                    !.had_entry = (key \in DOMAIN memory_cache
                                        /\ memory_cache[key].expires_at > now),
                                    !.user_id = user_id, !.cache_key = key,
                                    !.request_id = next_uuid, !.start_time = now]
       IN  IF got.raised
           THEN /\ calls' = [calls EXCEPT ![c] =
                               [base EXCEPT !.pc = "failed",
                                   !.error = Wrap("synthesis failed",
                                                  << "CacheError", "get" >>)]]
                /\ UNCHANGED << memory_cache, cache_stats, next_uuid, results >>
           ELSE IF ~IsNone(got.value) /\ DictTruthy(TheVal(got.value))
           THEN LET cached == HitFields(TheVal(got.value), next_uuid, now)
                IN  /\ memory_cache' = [got.cache EXCEPT ![key].data = cached]
                    /\ cache_stats' = got.stats
                    /\ next_uuid' = next_uuid + 1
                    /\ calls' = [calls EXCEPT ![c] =
                                    [base EXCEPT !.pc = "returned", !.hit = TRUE,
                                                 !.file_path = Some(cached.file_path),
                                                 !.response = Some(cached)]]
                    /\ results' = Append(results, cached)
           ELSE LET path == FilePath(FileName(next_uuid, request.format))
                    json == BuildRequestJson(next_uuid + 1, next_uuid + 2,
                                             request, emotion_voices)
                IN  /\ memory_cache' = got.cache
                    /\ cache_stats' = got.stats
                    /\ next_uuid' = next_uuid + 3
                    /\ calls' = [calls EXCEPT ![c] =
                                    [base EXCEPT !.pc = "connecting",
                                                 !.voices_at_build = emotion_voices,
                                                 !.file_path = Some(path),
                                                 !.request_json = Some(json)]]
                    /\ results' = results
    /\ UNCHANGED << files, clockVars, registryVars, cacheSpecVars, keySpecVars,
                    populated >>

StartText(c, request, user_id) ==
    StartTextWith(c, request, user_id,
                  CacheGet(memory_cache, cache_stats,
                           SynthesizeTextKey(request, user_id, now, next_uuid), now),
                  FALSE)

\* synthesize_text when the cache lookup fails inside CacheService.get
StartTextGetFails(c, request, user_id) ==
    StartTextWith(c, request, user_id,
                  CacheGetFailed(memory_cache, cache_stats,
                                 SynthesizeTextKey(request, user_id, now, next_uuid), now),
                  TRUE)

\* the arguments of the cache write of call c
SetKey(c) == calls[c].cache_key
SetValue(c, duration) == CacheData(BuildResponse(calls[c], duration, now))

\* get_audio_duration returns (or fails: duration None), then the response,
\* the cache write and the return; put is what CacheService.set did
ProbeWith(c, duration, put, write_failed) ==
    /\ calls[c].pc = "probing"
    /\ LET response == BuildResponse(calls[c], duration, now)
           key == calls[c].cache_key
           stored == key \in DOMAIN put.cache
                        /\ put.cache[key].data = CacheData(response)
       IN  IF put.raised
           THEN /\ calls' = [calls EXCEPT ![c] =
                               [@ EXCEPT !.pc = "failed", !.set_failed = write_failed,
                                   !.error = Wrap("synthesis failed",
                                                  << "CacheError", "set" >>)]]
                /\ UNCHANGED << memory_cache, cache_stats, results, populated >>
           ELSE /\ memory_cache' = put.cache
                /\ cache_stats' = put.stats
                /\ calls' = [calls EXCEPT ![c] =
                                [@ EXCEPT !.pc = "returned", !.set_failed = write_failed,
                                          !.response = Some(response)]]
                /\ results' = Append(results, response)
                /\ populated' = IF stored
                                THEN [k \in (DOMAIN populated) \cup {key} |->
                                         IF k = key THEN response ELSE populated[k]]
                                ELSE populated
    /\ UNCHANGED << files, clockVars, next_uuid, registryVars,
                    cacheSpecVars, keySpecVars, started >>

Probe(c, duration) ==
    ProbeWith(c, duration,
              CacheSet(memory_cache, cache_stats, SetKey(c), SetValue(c, duration),
                       Some(CACHE_EXPIRE_SECONDS), now),
              FALSE)

\* the cache write fails inside CacheService.set, before the store
ProbeSetFails(c, duration) ==
    ProbeWith(c, duration,
              CacheSetFailed(memory_cache, cache_stats, SetKey(c),
                             SetValue(c, duration), Some(CACHE_EXPIRE_SECONDS), now),
              TRUE)

\* the cache write fails inside CacheService.set, after the store
ProbeSetFailsInCleanup(c, duration) ==
    ProbeWith(c, duration,
              CacheSetFailedInCleanup(memory_cache, cache_stats, SetKey(c),
                                      SetValue(c, duration),
                                      Some(CACHE_EXPIRE_SECONDS), now),
              TRUE)

Durations == {None, Some(7)}

(***************************************************************************)
(* TTSService.synthesize_stream -> VolcanoTTSClient.synthesize_stream.     *)
(***************************************************************************)
\* a streaming call that looks its request up in the cache first
StartStreamLookup(c, request) ==
    /\ Free(c)
    /\ started < MaxCalls
    /\ started' = started + 1
    /\ calls' = [calls EXCEPT ![c] =
                    [IdleCall EXCEPT !.kind = "stream", !.pc = "connecting",
                              !.request = Some(request), !.start_time = now,
                              !.voices_at_build = emotion_voices,
                              !.request_json =
                                  Some(BuildRequestJson(next_uuid + 1, next_uuid,
                                                        request, emotion_voices))]]
    /\ next_uuid' = next_uuid + 2
    /\ LET got == CacheGet(memory_cache, cache_stats, CacheKeyOf(request), now)
       IN  memory_cache' = got.cache /\ cache_stats' = got.stats
    /\ UNCHANGED << files, clockVars, registryVars,
                    cacheSpecVars, keySpecVars, results, populated >>

StartStream(c, request) ==
    /\ Free(c)
    /\ started < MaxCalls
    /\ started' = started + 1
    /\ calls' = [calls EXCEPT ![c] =
                    [IdleCall EXCEPT !.kind = "stream", !.pc = "connecting",
                              !.request = Some(request), !.start_time = now,
                              !.voices_at_build = emotion_voices,
                              !.request_json =
                                  Some(BuildRequestJson(next_uuid + 1, next_uuid,
                                                        request, emotion_voices))]]
    /\ next_uuid' = next_uuid + 2
    /\ UNCHANGED << files, cacheVars, clockVars, registryVars,
                    cacheSpecVars, keySpecVars, results, populated >>

(***************************************************************************)
(* The environment: the clock, the configuration document, reload.         *)
(***************************************************************************)
Tick(d) ==
    /\ ticks < MaxTicks
    /\ now' = now + d
    /\ ticks' = ticks + 1
    /\ UNCHANGED << calls, files, cacheVars, next_uuid, registryVars,
                    cacheSpecVars, keySpecVars, logVars >>

EditConfig(doc) ==
    /\ doc # voice_config
    /\ voice_config' = doc
    /\ UNCHANGED << calls, files, cacheVars, clockVars, next_uuid, emotion_voices,
                    reload, lookup, voiceVars, cacheSpecVars, keySpecVars, logVars >>

\* VolcanoTTSClient.reload_emotion_voices
reload_emotion_voices ==
    /\ emotion_voices' = _load_emotion_voices(voice_config)
    /\ UNCHANGED << calls, files, cacheVars, clockVars, next_uuid, voice_config,
                    reload, lookup, voiceVars, cacheSpecVars, keySpecVars, logVars >>

(***************************************************************************)
(* reload_emotion_voices and supports_emotion run by two threads, step by  *)
(* step.  A list object is known by its content; a lookup that holds the   *)
(* installed object is `attached` and sees what is stored into it, a       *)
(* lookup that holds an object no longer installed keeps that content.     *)
(* candidates, old and new are for the properties: the complete lists      *)
(* installed while the lookup ran.                                         *)
(***************************************************************************)
IdleReload == [pc |-> "idle", stores |-> << >>, old |-> << >>, new |-> << >>]
IdleLookup == [pc |-> "idle", voice |-> "", list |-> << >>, attached |-> FALSE,
               idx |-> 0, answer |-> FALSE, candidates |-> {}]

Voices == {EmoVoice, GenericVoice}

\* the lists _load_emotion_voices can return
CompleteLists == { _load_emotion_voices(doc) : doc \in ConfigDocs }

\* _load_emotion_voices() has returned: the new list is built, not yet stored
ReloadLoad ==
    /\ reload.pc = "idle"
    /\ LET new == _load_emotion_voices(voice_config)
       IN  reload' = [pc |-> "loaded", stores |-> InstallStores(emotion_voices, new),
                      old |-> emotion_voices, new |-> new]
    /\ UNCHANGED << calls, files, cacheVars, clockVars, next_uuid, voice_config,
                    emotion_voices, lookup, voiceVars, cacheSpecVars, keySpecVars, logVars >>

\* the next store of the reload
ReloadStore ==
    /\ reload.pc = "loaded"
    /\ LET store == Head(reload.stores)
           last  == Len(reload.stores) = 1
       IN  /\ emotion_voices' = store.list
           /\ reload' = IF last THEN IdleReload
                        ELSE [reload EXCEPT !.stores = Tail(@)]
           /\ lookup' =
                 IF lookup.pc # "scanning" THEN lookup
                 ELSE [lookup EXCEPT
                         !.attached = @ /\ ~store.fresh,
                         !.list = IF lookup.attached /\ ~store.fresh
                                  THEN store.list ELSE @,
                         !.candidates = IF last THEN @ \cup {reload.new} ELSE @]
    /\ UNCHANGED << calls, files, cacheVars, clockVars, next_uuid, voice_config,
                    voiceVars, cacheSpecVars, keySpecVars, logVars >>

\* supports_emotion(voice_type) reads self.emotion_voices
LookupRead(voice_type) ==
    /\ lookup.pc = "idle"
    /\ lookup' = [pc |-> "scanning", voice |-> voice_type, list |-> emotion_voices,
                  attached |-> TRUE, idx |-> 1, answer |-> FALSE,
                  candidates |-> IF reload.pc = "loaded" /\ emotion_voices # reload.old
                                 THEN {reload.old} ELSE {emotion_voices}]
    /\ UNCHANGED << calls, files, cacheVars, clockVars, next_uuid, voice_config,
                    emotion_voices, reload, voiceVars, cacheSpecVars, keySpecVars, logVars >>

\* `voice_type in <list>`: one element compared, or the end of the list met
LookupScan ==
    /\ lookup.pc = "scanning"
    /\ lookup' =
          IF lookup.idx > Len(lookup.list)
          THEN [lookup EXCEPT !.pc = "done", !.answer = FALSE]
          ELSE IF lookup.list[lookup.idx] = lookup.voice
          THEN [lookup EXCEPT !.pc = "done", !.answer = TRUE]
          ELSE [lookup EXCEPT !.idx = @ + 1]
    /\ UNCHANGED << calls, files, cacheVars, clockVars, next_uuid, voice_config,
                    emotion_voices, reload, voiceVars, cacheSpecVars, keySpecVars, logVars >>

\* the caller has the answer
LookupReturn ==
    /\ lookup.pc = "done"
    /\ lookup' = IdleLookup
    /\ UNCHANGED << calls, files, cacheVars, clockVars, next_uuid, voice_config,
                    emotion_voices, reload, voiceVars, cacheSpecVars, keySpecVars, logVars >>

(***************************************************************************)
(* The voice list: TTSService.get_voice_list and the endpoint               *)
(* get_voice_list of voices.py.  A text is a sequence of characters.  The   *)
(* schema classes are plain pydantic models: VoiceListResponse(categories=  *)
(* ...) makes a list of its own that holds the VoiceCategory objects it was *)
(* given, so an assignment to a field of a category of the response is an   *)
(* assignment to the category held in _voice_cache.                         *)
(***************************************************************************)
VoiceInfo(id, name, description, language, tags, emotions) ==
    [id |-> id, name |-> name, description |-> description, language |-> language,
     tags |-> tags, emotions |-> emotions]

VoiceCategory(name, voices) == [name |-> name, voices |-> voices]

ZhCN == << "z", "h", "-", "C", "N" >>
EnUS == << "e", "n", "-", "U", "S" >>

\* the categories of a voice_presets_complete.json
PresetCategories ==
    << VoiceCategory("multi_emotion",
          << VoiceInfo("emo_zh", << "R", "o", "u" >>, << "s", "o", "f", "t" >>, ZhCN,
                       << << "f" >> >>, Some(<< "happy", "sad" >>)),
             VoiceInfo("emo_en", << "A", "m", "y" >>, << "w", "a", "r", "m" >>, EnUS,
                       << << "f" >>, << "u", "s" >> >>, Some(<< "happy" >>)) >>),
       VoiceCategory("general",
          << VoiceInfo("gen_zh", << "L", "i" >>, << "n", "e", "w", "s" >>, ZhCN,
                       << >>, None),
             VoiceInfo("gen_en", << "T", "o", "m" >>, << "s", "o", "f", "t" >>, EnUS,
                       << << "m" >> >>, Some(<< >>)) >>),
       VoiceCategory("dialect", << >>) >>

\* _get_fallback_voice_data
_get_fallback_voice_data ==
    [categories |-> << VoiceCategory("general_voices",
                          << VoiceInfo("default_voice", << "D", "e", "f" >>,
                                       << "d", "e", "f" >>, ZhCN,
                                       << << "g" >>, << "f" >> >>, None) >>) >>,
     emotion_voices |-> << >>]

\* _load_voice_data: the value it stores in _voice_cache
_load_voice_data(doc) ==
    IF ~doc.found \/ ~doc.parsable THEN _get_fallback_voice_data
    ELSE [categories |-> PresetCategories, emotion_voices |-> doc.emotion_voices]

\* str.lower() on the letters in use
LowerChar(ch) ==
    CASE ch = "A" -> "a" [] ch = "C" -> "c" [] ch = "D" -> "d" [] ch = "L" -> "l"
      [] ch = "N" -> "n" [] ch = "R" -> "r" [] ch = "S" -> "s" [] ch = "T" -> "t"
      [] ch = "U" -> "u" [] OTHER -> ch
Lower(text) == [i \in 1..Len(text) |-> LowerChar(text[i])]

\* needle in hay
Contains(hay, needle) ==
    \E i \in 0..(Len(hay) - Len(needle)) : SubSeq(hay, i + 1, i + Len(needle)) = needle

\* ' '.join(tags)
RECURSIVE JoinSpace(_)
JoinSpace(tags) ==
    IF tags = << >> THEN << >>
    ELSE IF Len(tags) = 1 THEN tags[1]
    ELSE tags[1] \o << " " >> \o JoinSpace(Tail(tags))

\* the truth value of an optional text: None and "" are false
TextTruthy(o) == ~IsNone(o) /\ TheVal(o) # << >>

RECURSIVE SumLen(_)
SumLen(categories) ==
    IF categories = << >> THEN 0
    ELSE Len(categories[1].voices) + SumLen(Tail(categories))

\* the loop body of the endpoint: TRUE when the voice is appended to
\* filtered_voices
VoiceKept(voice, language, emotion_support, search) ==
    LET has_emotion == ~IsNone(voice.emotions) /\ Len(TheVal(voice.emotions)) > 0
    IN  /\ ~(TextTruthy(language) /\ ~Contains(voice.language, TheVal(language)))
        /\ IsNone(emotion_support) \/ TheVal(emotion_support) = has_emotion
        /\ ~TextTruthy(search) \/
              LET search_text == Lower(TheVal(search))
              IN  \/ Contains(Lower(voice.name), search_text)
                  \/ Contains(Lower(voice.description), search_text)
                  \/ Contains(Lower(JoinSpace(voice.tags)), search_text)

FilterVoices(voices, language, emotion_support, search) ==
    LET Kept(voice) == VoiceKept(voice, language, emotion_support, search)
    IN  SelectSeq(voices, Kept)

\* TTSService.get_voice_list on a loaded cache: the indices, in
\* _voice_cache["categories"], of the categories of the response
ListedCategories(cache, category) ==
    LET all == [i \in 1..Len(cache.categories) |-> i]
        Named(i) == cache.categories[i].name = TheVal(category)
    IN  IF ~IsNone(category) /\ TheVal(category) # "" THEN SelectSeq(all, Named) ELSE all

\* the VoiceListResponse over the categories with these indices
VoiceListResponse(cache, indices) ==
    LET categories == [j \in 1..Len(indices) |-> cache.categories[indices[j]]]
    IN  [categories |-> categories, total_count |-> SumLen(categories),
         emotion_voices |-> cache.emotion_voices]

\* the endpoint get_voice_list with what it leaves in _voice_cache
ListVoices(category, language, emotion_support, search) ==
    LET cache0    == IF IsNone(voice_cache) THEN _load_voice_data(voice_config)
                     ELSE TheVal(voice_cache)
        listed    == ListedCategories(cache0, category)
        filtering == TextTruthy(language) \/ ~IsNone(emotion_support)
                        \/ TextTruthy(search)
        Filtered(i) == FilterVoices(cache0.categories[i].voices, language,
                                    emotion_support, search)
        Matches(i)  == Filtered(i) # << >>
        \* cat.voices = filtered_voices, on the objects the cache holds
        cache1    == [cache0 EXCEPT !.categories =
                        [i \in 1..Len(cache0.categories) |->
                            IF filtering /\ (\E j \in 1..Len(listed) : listed[j] = i)
                                         /\ Matches(i)
                            THEN [cache0.categories[i] EXCEPT !.voices = Filtered(i)]
                            ELSE cache0.categories[i]]]
        returned  == IF filtering THEN SelectSeq(listed, Matches) ELSE listed
    IN  /\ voice_cache' = Some(cache1)
        /\ voice_loaded' = IF IsNone(voice_cache) THEN cache0.categories
                           ELSE voice_loaded
        /\ last_list' = Some(VoiceListResponse(cache1, returned))
        /\ UNCHANGED << calls, files, cacheVars, clockVars, next_uuid, voice_config,
                        emotion_voices, reload, lookup, cacheSpecVars, keySpecVars,
                        logVars >>

Categories == {None, Some("multi_emotion"), Some("general")}
Languages  == {None, Some(<< >>), Some(<< "z", "h" >>), Some(<< "e", "n" >>)}
EmotionSupports == {None, Some(TRUE), Some(FALSE)}
Searches   == {None, Some(<< "S", "o" >>), Some(<< "f" >>)}

(***************************************************************************)
(* The cache on its own: set, get and delete with any key, value and       *)
(* expire, and the clock.                                                  *)
(***************************************************************************)
CacheKeys   == {"k1", "k2"}
CacheValues == {"v1", "v2"}
Expires     == {None, Some(0), Some(1)}

DoSet(k, v, expire) ==
    /\ cache_ops < MaxCacheOps
    /\ LET put == CacheSet(memory_cache, cache_stats, k, v, expire, now)
       IN  /\ memory_cache' = put.cache
           /\ cache_stats' = put.stats
    /\ last_set' = [x \in (DOMAIN last_set) \cup {k} |->
                       IF x = k
                       THEN [value |-> v, t0 |-> now, expire |-> expire,
                             replaced |-> k \in DOMAIN memory_cache
                                          /\ memory_cache[k].data # v
                                          /\ memory_cache[k].expires_at > now
                                          /\ memory_cache'[k].expires_at
                                                # memory_cache[k].expires_at]
                       ELSE last_set[x]]
    /\ cache_ops' = cache_ops + 1
    /\ UNCHANGED << calls, files, clockVars, next_uuid, registryVars, last_get,
                    keySpecVars, logVars >>

DoGet(k) ==
    /\ cache_ops < MaxCacheOps
    /\ LET got == CacheGet(memory_cache, cache_stats, k, now)
       IN  /\ memory_cache' = got.cache
           /\ cache_stats' = got.stats
           /\ last_get' = Some([key |-> k, value |-> got.value, t |-> now,
                                set |-> IF k \in DOMAIN last_set
                                        THEN Some(last_set[k]) ELSE None])
    /\ cache_ops' = cache_ops + 1
    /\ UNCHANGED << calls, files, clockVars, next_uuid, registryVars, last_set,
                    keySpecVars, logVars >>

DoDelete(k) ==
    /\ cache_ops < MaxCacheOps
    /\ LET del == CacheDelete(memory_cache, cache_stats, k)
       IN  /\ memory_cache' = del.cache
           /\ cache_stats' = del.stats
    /\ last_set' = Without(last_set, {k})
    /\ cache_ops' = cache_ops + 1
    /\ UNCHANGED << calls, files, clockVars, next_uuid, registryVars, last_get,
                    keySpecVars, logVars >>

(***************************************************************************)
(* The key on its own: generate_cache_key called with the keyword          *)
(* arguments written in any order, and the key synthesize_text computes    *)
(* for callers, times and request ids that differ.                         *)
(***************************************************************************)
KeyRequests ==
    { Request("hello", GenericVoice, 10, 10, 10, "mp3", None),
      Request("hello", GenericVoice, 10, 10, 10, "mp3", Some("neutral")),
      Request("hello", GenericVoice, 10, 15, 10, "mp3", Some("happy")),
      Request("hi", EmoVoice, 15, 10, 10, "wav", Some("happy")) }

Users == {None, Some("u1")}

\* the synthesis-relevant parameters as a set of (name, value) pairs
ParamSet(request) ==
    { << "text", request.text >>, << "voice_id", request.voice_id >>,
      << "speed", request.speed >>, << "volume", request.volume >>,
      << "pitch", request.pitch >>, << "format", request.format >>,
      << "emotion", EmotionOrNeutral(request.emotion) >> }

\* two neighbouring keyword arguments change places
SwapArgs(i) ==
    /\ swaps < MaxSwaps
    /\ IsNone(kw_key)
    /\ kw_order' = [kw_order EXCEPT ![i] = kw_order[i + 1], ![i + 1] = kw_order[i]]
    /\ swaps' = swaps + 1
    /\ UNCHANGED << calls, files, cacheVars, clockVars, next_uuid, registryVars,
                    cacheSpecVars, kw_req, kw_key, svc_keys, logVars >>

CallGenerateCacheKey ==
    /\ kw_key' = Some(generate_cache_key("tts", kw_order))
    /\ UNCHANGED << calls, files, cacheVars, clockVars, next_uuid, registryVars,
                    cacheSpecVars, kw_req, kw_order, svc_keys, swaps, logVars >>

\* synthesize_text computes the key of a request with the parameters of
\* kw_req, for some caller, at the current time and uuid state
ServiceKey(request, user_id) ==
    /\ next_uuid <= MaxCalls
    /\ ~IsNone(kw_key)
    /\ ParamSet(request) = ParamSet(kw_req)
    /\ svc_keys' = svc_keys \cup
          { [user_id |-> user_id, t |-> now, uuid |-> next_uuid,
             key |-> SynthesizeTextKey(request, user_id, now, next_uuid)] }
    /\ next_uuid' = next_uuid + 1
    /\ UNCHANGED << calls, files, cacheVars, clockVars, registryVars,
                    cacheSpecVars, kw_req, kw_order, kw_key, swaps, logVars >>

(***************************************************************************)
(* Specifications.                                                         *)
(***************************************************************************)
InitStats == [hits |-> 0, misses |-> 0, sets |-> 0, deletes |-> 0]

InitWith(doc, request) ==
    /\ calls = [c \in Calls |-> IdleCall]
    /\ files = EmptyCache
    /\ memory_cache = EmptyCache
    /\ cache_stats = InitStats
    /\ now = 0
    /\ ticks = 0
    /\ next_uuid = 1
    /\ started = 0
    /\ results = << >>
    /\ populated = EmptyCache
    /\ voice_config = doc
    /\ emotion_voices = _load_emotion_voices(doc)
    /\ reload = IdleReload
    /\ lookup = IdleLookup
    /\ voice_cache = None
    /\ voice_loaded = << >>
    /\ last_list = None
    /\ cache_ops = 0
    /\ last_set = EmptyCache
    /\ last_get = None
    /\ kw_req = request
    /\ kw_order = KeyArgs(request)
    /\ kw_key = None
    /\ svc_keys = {}
    /\ swaps = 0

DefaultDoc == ConfigDoc(FALSE, FALSE, << >>)
DefaultRequest == Request("hello", GenericVoice, 10, 10, 10, "mp3", None)

\* the service: calls of synthesize_text and synthesize_stream one after the
\* other, the cache and the clock
Init == InitWith(DefaultDoc, DefaultRequest)

Next ==
    \/ \E r \in ServiceRequests : StartText(1, r, None)
    \/ \E r \in ServiceRequests : StartStream(1, r)
    \/ Connect(1)
    \/ ConnectFail(1)
    \/ Send(1)
    \/ SendFail(1)
    \/ \E e \in ServiceEvents : Recv(1, e)
    \/ Persist(1)
    \/ PersistFailOpen(1)
    \/ \E n \in 0..MaxRecv : PersistFailWrite(1, n)
    \/ \E d \in Durations : Probe(1, d)
    \/ Free(1) /\ Tick(HalfExpiry)

Spec == Init /\ [][Next]_vars

\* the client: one call over every kind of frame
StreamRequests ==
    { Request("hello", GenericVoice, 10, 10, 10, "mp3", None),
      Request("hello", EmoVoice, 10, 10, 10, "wav", Some("happy")) }

NextClient ==
    \/ \E r \in StreamRequests : started = 0 /\ StartText(1, r, None)
    \/ \E r \in StreamRequests : started = 0 /\ StartStream(1, r)
    \/ Connect(1)
    \/ ConnectFail(1)
    \/ Send(1)
    \/ SendFail(1)
    \/ \E e \in ClientEvents : Recv(1, e)
    \/ Persist(1)
    \/ PersistFailOpen(1)
    \/ \E n \in 0..MaxRecv : PersistFailWrite(1, n)
    \/ \E d \in Durations : Probe(1, d)

SpecClient == Init /\ [][NextClient]_vars

\* the registry: the configuration document is edited and reloaded, calls
\* build and send their wire request
InitRegistry == \E doc \in ConfigDocs : InitWith(doc, DefaultRequest)

NextRegistry ==
    \/ \E doc \in ConfigDocs : EditConfig(doc)
    \/ reload_emotion_voices
    \/ \E r \in ClientRequests : StartText(1, r, None)
    \/ \E r \in ClientRequests : StartStream(1, r)
    \/ Connect(1)
    \/ Send(1)
    \/ Recv(1, TimeoutEv)

SpecRegistry == InitRegistry /\ [][NextRegistry]_vars

\* requests whose text or voice id holds the separators of the key string
CollidingRequests ==
    { Request("a|voice_id:b", "c", 10, 10, 10, "mp3", None),
      Request("a", "b|voice_id:c", 10, 10, 10, "mp3", None),
      Request("a", "b", 10, 10, 10, "mp3", None) }

\* the service called with such requests, one call after the other
NextCollide ==
    \/ \E r \in CollidingRequests : StartText(1, r, None)
    \/ Connect(1)
    \/ Send(1)
    \/ \E e \in ServiceEvents : Recv(1, e)
    \/ Persist(1)
    \/ \E d \in Durations : Probe(1, d)

SpecCollide == Init /\ [][NextCollide]_vars

\* voice-list requests one after the other
NextVoices ==
    \E category \in Categories, language \in Languages,
       emotion_support \in EmotionSupports, search \in Searches :
        ListVoices(category, language, emotion_support, search)

SpecVoices == InitRegistry /\ [][NextVoices]_vars

\* the registry reloaded by one thread while another asks supports_emotion
NextReload ==
    \/ \E doc \in ConfigDocs : reload.pc = "idle" /\ EditConfig(doc)
    \/ ReloadLoad
    \/ ReloadStore
    \/ \E v \in Voices : LookupRead(v)
    \/ LookupScan
    \/ LookupReturn

SpecReload == InitRegistry /\ [][NextReload]_vars

\* the cache
NextCache ==
    \/ \E k \in CacheKeys, v \in CacheValues, x \in Expires : DoSet(k, v, x)
    \/ \E k \in CacheKeys : DoGet(k)
    \/ \E k \in CacheKeys : DoDelete(k)
    \/ \E d \in {1, TicksPerSecond} : Tick(d)

SpecCache == Init /\ [][NextCache]_vars

\* the key
InitKey == \E r \in KeyRequests : InitWith(DefaultDoc, r)

NextKey ==
    \/ \E i \in 1..6 : SwapArgs(i)
    \/ CallGenerateCacheKey
    \/ \E r \in KeyRequests, u \in Users : ServiceKey(r, u)
    \/ svc_keys # {} /\ Tick(1)

SpecKey == InitKey /\ [][NextKey]_vars

\* the service with a cache whose lookups and writes can fail
NextFault ==
    \/ StartText(1, DefaultRequest, None)
    \/ StartTextGetFails(1, DefaultRequest, None)
    \/ Connect(1)
    \/ ConnectFail(1)
    \/ Send(1)
    \/ \E e \in ServiceEvents : Recv(1, e)
    \/ Persist(1)
    \/ \E d \in Durations : Probe(1, d)
    \/ \E d \in Durations : ProbeSetFails(1, d)
    \/ \E d \in Durations : ProbeSetFailsInCleanup(1, d)
    \/ Free(1) /\ Tick(HalfExpiry)

SpecFault == Init /\ [][NextFault]_vars

\* two slots: calls of synthesize_text for one request that overlap at their
\* awaits (connect, send, recv, get_audio_duration)
NextConcurrent ==
    \/ \E c \in Calls : StartText(c, DefaultRequest, None)
    \/ \E c \in Calls : Connect(c)
    \/ \E c \in Calls : Send(c)
    \/ \E c \in Calls, e \in ServiceEvents : Recv(c, e)
    \/ \E c \in Calls : Persist(c)
    \/ \E c \in Calls, d \in Durations : Probe(c, d)

SpecConcurrent == Init /\ [][NextConcurrent]_vars

\* one pass of the receive loop, whatever arrives
LiveRecv ==
    \/ \E e \in ClientEvents : Recv(1, e)
    \/ \E e \in QuietEvents : RecvAgain(1, e)

\* one call whose provider can go on sending for ever.  Every await of the
\* call returns or raises (connect and send in time, recv within
\* SYNTHESIS_TIMEOUT, the file system calls at once), so each step of the
\* call is taken once it is possible.
NextLive ==
    \/ \E r \in StreamRequests : started = 0 /\ StartText(1, r, None)
    \/ \E r \in StreamRequests : started = 0 /\ StartStream(1, r)
    \/ Connect(1)
    \/ ConnectFail(1)
    \/ Send(1)
    \/ LiveRecv
    \/ Persist(1)
    \/ \E d \in Durations : Probe(1, d)

SpecLive ==
    /\ Init /\ [][NextLive]_vars
    /\ WF_vars(Connect(1) \/ ConnectFail(1))
    /\ WF_vars(Send(1))
    /\ WF_vars(LiveRecv)
    /\ WF_vars(Persist(1))
    /\ WF_vars(\E d \in Durations : Probe(1, d))

\* one call that its consumer can give up
NextCancel ==
    \/ \E r \in StreamRequests : started = 0 /\ StartText(1, r, None)
    \/ \E r \in StreamRequests : started = 0 /\ StartStream(1, r)
    \/ Connect(1)
    \/ ConnectFail(1)
    \/ Send(1)
    \/ SendFail(1)
    \/ \E e \in ClientEvents : Recv(1, e)
    \/ Abandon(1)
    \/ Finalize(1)
    \/ Cancel(1)
    \/ Persist(1)
    \/ \E d \in Durations : Probe(1, d)

SpecCancel == Init /\ [][NextCancel]_vars

(***************************************************************************)
(* Properties.                                                             *)
(***************************************************************************)
\* the stream of call c ended by a receive timeout or by the peer closing,
\* before any terminal chunk
EndedIncomplete(c) == calls[c].end_cause \in {"timeout", "closed"}

\* the innermost exception of the failure that reached the caller
Cause(c) ==
    IF calls[c].kind = "text" THEN calls[c].error[2][2] ELSE calls[c].error[2]

\* C1: a stream that ends by a receive timeout or by the connection closing
\* before a terminal chunk is reported to its caller as a failure: the
\* generator _synthesize_stream does not finish the way it does after a
\* terminal chunk.
C1_IncompleteStreamReported ==
    \A c \in Calls : EndedIncomplete(c) => calls[c].gen = "raised"

\* C2: when the stream ends without a terminal chunk, synthesize_to_file
\* writes no file at the output location and returns no result with status
\* "success".
C2_PartialAudioDiscarded ==
    \A c \in Calls :
        (calls[c].kind = "text" /\ EndedIncomplete(c)) =>
            /\ TheVal(calls[c].file_path) \notin DOMAIN files
            /\ IsNone(calls[c].result)
            /\ calls[c].pc # "returned"

\* C3: the first chunk with data and a negative sequence number ends the
\* stream: the bytes yielded are those of the chunks with data up to and
\* including it, the generator finishes normally, the connection is closed,
\* and nothing is received or yielded after it.
C3_TerminalChunkEndsStream ==
    \A c \in Calls :
        calls[c].terminal_seen =>
            /\ calls[c].gen = "returned"
            /\ calls[c].pc # "receiving"
            /\ calls[c].conn = "closed"
            /\ Flatten(calls[c].yielded) = calls[c].expected
            /\ calls[c].after_end = 0

\* C3 happens: a chunk, then the terminal chunk with its audio, both yielded
C3_Witness ==
    \E c \in Calls :
        /\ calls[c].terminal_seen
        /\ calls[c].yielded = << << 7 >>, << 9 >> >>

\* C4: an error frame with code c and message m aborts the stream: the
\* generator raises, the connection is closed, nothing is received or
\* yielded after it, and the failure that reaches the caller carries c and m.
C4_ErrorFrameAborts ==
    \A c \in Calls :
        ~IsNone(calls[c].error_seen) =>
            /\ calls[c].gen = "raised"
            /\ calls[c].pc \in {"failed", "stream_failed"}
            /\ calls[c].conn = "closed"
            /\ Flatten(calls[c].yielded) = calls[c].expected
            /\ calls[c].after_end = 0
            /\ Cause(c) = << "TTS API error", TheVal(calls[c].error_seen).code,
                             TheVal(calls[c].error_seen).msg >>

\* C4 happens: code 45000 arrives after a chunk has been yielded
C4_Witness ==
    \E c \in Calls :
        /\ ~IsNone(calls[c].error_seen)
        /\ TheVal(calls[c].error_seen).code = 45000
        /\ calls[c].yielded = << << 7 >> >>
        /\ Cause(c) = << "TTS API error", 45000, MsgInvalid >>

\* C5: after a synthesize_text call that ended in failure no file exists at
\* its output location.
C5_NoFileAfterFailure ==
    \A c \in Calls :
        (calls[c].pc = "failed" /\ ~IsNone(calls[c].file_path)) =>
            TheVal(calls[c].file_path) \notin DOMAIN files

\* C6: a synthesize_text call whose key has an unexpired entry returns from
\* the cache without opening a connection or sending a request, and its
\* voice id, format, size and duration are those of the result that
\* populated the entry.
C6_CacheHitSkipsClient ==
    \A c \in Calls :
        (calls[c].kind = "text" /\ calls[c].had_entry) =>
            /\ calls[c].hit
            /\ calls[c].pc = "returned"
            /\ calls[c].opened = 0
            /\ calls[c].sent = << >>
            /\ IsNone(calls[c].request_json)
            /\ LET got == TheVal(calls[c].response)
                   was == populated[calls[c].cache_key]
               IN  /\ got.voice_id = was.voice_id
                   /\ got.format = was.format
                   /\ got.file_size = was.file_size
                   /\ got.duration = was.duration

\* C6 happens: a later call is served the metadata of an earlier synthesis
C6_Witness ==
    \E c \in Calls :
        /\ calls[c].hit
        /\ Len(results) = 2
        /\ results[2].created_at > results[1].created_at
        /\ results[2].file_size = 2
        /\ results[2].duration = Some(7)

\* C7: every result synthesize_text returns carries a request id that no
\* earlier result carried, cache hits included, and a storage path derived
\* from it, so no two results share a path.
C7_FreshRequestIds ==
    /\ \A i, j \in 1..Len(results) :
          i < j => /\ results[i].request_id # results[j].request_id
                   /\ results[i].file_path # results[j].file_path
    /\ \A i \in 1..Len(results) :
          results[i].file_path =
              FilePath(FileName(results[i].request_id, results[i].format))

\* C7 happens: two results, the second served from the cache
C7_Witness ==
    /\ Len(results) = 2
    /\ \E c \in Calls : calls[c].hit /\ calls[c].response = Some(results[2])

\* C8: for a request with an emotion tag the wire request holds the emotion
\* field exactly when the registry listed the voice at the time the request
\* was built; without support the request is built and sent without the
\* field and the call does not fail for it.  Both synthesize_to_file and
\* synthesize_stream.
C8_EmotionIffSupported ==
    \A c \in Calls :
        (~IsNone(calls[c].request_json) /\ Truthy(TheVal(calls[c].request).emotion)) =>
            LET request   == TheVal(calls[c].request)
                json      == TheVal(calls[c].request_json)
                listed    == \E i \in 1..Len(calls[c].voices_at_build) :
                                calls[c].voices_at_build[i] = request.voice_id
            IN  /\ ("emotion" \in DOMAIN json.request) <=> listed
                /\ listed => json.request.emotion = TheVal(request.emotion)
                /\ calls[c].error = << >>
                /\ \A i \in 1..Len(calls[c].sent) : calls[c].sent[i] = json

\* C8 happens: the streaming call sends a request without the emotion of a
\* voice the registry does not list, after a reload changed the registry
C8_Witness ==
    \E c \in Calls :
        /\ calls[c].kind = "stream"
        /\ calls[c].sent # << >>
        /\ TheVal(calls[c].request).emotion = Some("happy")
        /\ TheVal(calls[c].request).voice_id = EmoVoice
        /\ "emotion" \notin DOMAIN calls[c].sent[1].request
        /\ calls[c].voices_at_build = << GenericVoice >>

\* C9: generate_cache_key returns the same key whatever order the keyword
\* arguments are passed in, and the key synthesize_text computes for a
\* parameter set is that key whoever calls, whenever, and whatever request
\* ids have been drawn.
C9_KeyOrderIndependent ==
    /\ ~IsNone(kw_key) =>
          TheVal(kw_key) = generate_cache_key("tts", KeyArgs(kw_req))
    /\ \A a \in svc_keys : a.key = generate_cache_key("tts", KeyArgs(kw_req))

\* C9 happens: the arguments were passed in another order, and two callers
\* at different times computed the service's key
C9_Witness ==
    /\ ~IsNone(kw_key)
    /\ kw_order # KeyArgs(kw_req)
    /\ kw_order[1][1] = "speed"
    /\ \E a, b \in svc_keys : a.user_id # b.user_id /\ a.t # b.t /\ a.uuid # b.uuid

\* the time at which the entry of the last set of the key read by the last
\* get runs out, were expire taken as given
Deadline(set) == set.t0 + TicksPerSecond * TheVal(set.expire)

C12_FileIsConcatenation ==
    \A c \in Calls :
        (calls[c].kind = "text" /\ ~calls[c].hit
            /\ calls[c].pc \in {"probing", "returned"}) =>
            LET path == TheVal(calls[c].file_path)
            IN  /\ path \in DOMAIN files
                /\ files[path] = Flatten(calls[c].yielded)
                /\ files[path] = calls[c].expected
                /\ TheVal(calls[c].result).file_size = Len(calls[c].expected)
                /\ calls[c].pc = "returned" =>
                      TheVal(calls[c].response).file_size = Len(calls[c].expected)

\* C12 happens: three chunks, the last one terminal, persisted and returned
C12_Witness ==
    \E c \in Calls :
        /\ calls[c].kind = "text"
        /\ calls[c].pc = "returned"
        /\ calls[c].terminal_seen
        /\ Len(calls[c].yielded) = 3
        /\ files[TheVal(calls[c].file_path)] = << 7, 8, 9 >>
        /\ TheVal(calls[c].response).file_size = 3

\* C13: a cache failure never makes synthesize_text fail.  A call whose
\* lookup failed is no hit: it draws its request id and output path and
\* builds the wire request as on a miss.  A call whose cache write failed has
\* returned its response.  No call fails with the cache's exception.
C13_CacheFailureTolerated ==
    \A c \in Calls :
        calls[c].kind = "text" =>
            /\ calls[c].get_failed =>
                  /\ ~calls[c].hit
                  /\ calls[c].pc # "idle"
                  /\ ~IsNone(calls[c].request_json)
                  /\ calls[c].file_path =
                        Some(FilePath(FileName(calls[c].request_id,
                                               TheVal(calls[c].request).format)))
            /\ calls[c].set_failed =>
                  /\ calls[c].pc = "returned"
                  /\ ~IsNone(calls[c].response)
                  /\ TheVal(calls[c].response).status = "success"
                  /\ results[Len(results)] = TheVal(calls[c].response)
            /\ calls[c].error # << >> => calls[c].error[2][1] # "CacheError"

\* C13 happens: the lookup failed although the entry was there, synthesis
\* ran, the cache write failed, and the response was returned
C13_Witness ==
    \E c \in Calls :
        /\ calls[c].get_failed
        /\ calls[c].had_entry
        /\ calls[c].set_failed
        /\ calls[c].pc = "returned"
        /\ calls[c].opened = 1
        /\ TheVal(calls[c].file_path) \in DOMAIN files

\* C14: no step of a streaming call (TTSService.synthesize_stream) changes
\* the cache, its counters or the stored files, the call has no cache key
\* and no output path, and the chunks it yields to its consumer are the
\* chunks the client yielded, in the same order.
C14_StreamBypassesCache ==
    /\ [][\A c \in Calls :
            (calls'[c] # calls[c] /\ calls'[c].kind = "stream") =>
                /\ memory_cache' = memory_cache
                /\ cache_stats' = cache_stats
                /\ files' = files]_vars
    /\ [](\A c \in Calls :
            calls[c].kind = "stream" =>
                /\ calls[c].forwarded = calls[c].yielded
                /\ IsNone(calls[c].file_path)
                /\ IsNone(calls[c].result)
                /\ ~calls[c].hit)

\* C14 happens: a streaming call has run to its end and forwarded its chunk
\* while the cache held an entry and a file was stored
C14_Witness ==
    \E c \in Calls :
        /\ calls[c].kind = "stream"
        /\ calls[c].pc = "stream_done"
        /\ calls[c].forwarded = << << 9, 9 >> >>
        /\ DOMAIN memory_cache # {}
        /\ DOMAIN files # {}

\* C15: a received frame of fewer than 4 bytes is fatal to the call: the
\* generator raises (MalformedFrame), the call has failed and the receive
\* loop does not go on.
C15_ShortFrameFatal ==
    \A c \in Calls :
        calls[c].short_seen =>
            /\ calls[c].gen = "raised"
            /\ calls[c].pc \in {"failed", "stream_failed"}
            /\ calls[c].conn = "closed"

\* C16: in every reachable state no value held in the cache has a file_path
\* field.
C16_NoPathInCache ==
    \A k \in DOMAIN memory_cache : "file_path" \notin DOMAIN memory_cache[k].data

\* both slots hold a call of synthesize_text that missed and has returned
BothMissedAndReturned ==
    \A c \in Calls :
        calls[c].kind = "text" /\ ~calls[c].hit /\ calls[c].pc = "returned"

\* C17: when two calls of synthesize_text for one key overlap and both miss,
\* both open a connection and both write the cache, and once both have
\* returned the entry holds the whole metadata of the response returned
\* last, which is the one whose set ran last: every field of the entry is
\* that call's, none the other's.
C17_LastWriteWins ==
    (BothMissedAndReturned /\ calls[1].cache_key = calls[2].cache_key
        /\ Len(results) = 2) =>
        LET key  == calls[1].cache_key
            last == results[Len(results)]
        IN  /\ \A c \in Calls : calls[c].opened = 1
            /\ cache_stats.sets = 2
            /\ key \in DOMAIN memory_cache
            /\ DOMAIN memory_cache[key].data = (DOMAIN last) \ {"file_path"}
            /\ \A f \in DOMAIN memory_cache[key].data :
                  memory_cache[key].data[f] = last[f]
            /\ \E c \in Calls : TheVal(calls[c].response) = last

\* C17 happens: the call that began second wrote the cache first, and the
\* entry is the first call's
C17_Witness ==
    /\ BothMissedAndReturned
    /\ Len(results) = 2
    /\ calls[1].request_id < calls[2].request_id
    /\ results[1].request_id = calls[2].request_id
    /\ results[2].request_id = calls[1].request_id
    /\ memory_cache[calls[1].cache_key].data.request_id = calls[1].request_id
    /\ results[1].file_url # results[2].file_url

\* C18: every call that has entered the receive loop leaves it, whatever
\* the provider sends.
C18_ReceiveLoopEnds ==
    [](calls[1].pc = "receiving" => <>(calls[1].pc # "receiving"))

\* the call in slot c has ended: it is past its stream, or its consumer has
\* given it up
CallEnded(c) ==
    calls[c].pc \in {"persisting", "probing", "returned", "failed",
                     "stream_done", "stream_failed", "abandoned", "cancelled"}

\* C19: once a call has ended, by a terminal chunk, a timeout, the peer
\* closing, an error frame, a decode failure, or its consumer abandoning or
\* cancelling the iteration, no connection of the call is open.
C19_NoConnectionLeftOpen ==
    \A c \in Calls : CallEnded(c) => calls[c].conn # "open"

BeforeLessExpired(c) ==
    LET before == calls[c].cache_before
        key    == calls[c].cache_key
    IN  IF key \in DOMAIN before /\ before[key].expires_at <= calls[c].start_time
        THEN Without(before, {key}) ELSE before

\* C21: a call of synthesize_text that has written the cache was a miss whose
\* provider stream reached its terminal chunk and whose audio is persisted;
\* a call that failed has left every cache entry as it found it, apart from
\* evicting the expired entry it read.
C21_CacheWrittenOnlyAfterSuccess ==
    \A c \in Calls :
        calls[c].kind = "text" =>
            /\ (calls[c].pc = "returned" /\ ~calls[c].hit /\ ~calls[c].set_failed) =>
                  /\ calls[c].terminal_seen
                  /\ TheVal(calls[c].file_path) \in DOMAIN files
            /\ calls[c].pc = "failed" => memory_cache = BeforeLessExpired(c)

\* C22: a cache hit leaves the stored entry as it was: the value and the
\* expiry held for the key are the same after the call as before it.
C22_HitLeavesEntryUnchanged ==
    \A c \in Calls :
        calls[c].hit =>
            /\ calls[c].cache_key \in DOMAIN memory_cache
            /\ memory_cache[calls[c].cache_key]
                  = calls[c].cache_before[calls[c].cache_key]

\* C23: a step get(key) on an entry whose expiry has passed returns absent
\* and removes that entry and no other; a get on an unexpired entry, or on a
\* key without an entry, removes nothing.
C23_GetEvictsOnlyItsKey ==
    [][\A k \in CacheKeys :
          DoGet(k) =>
              LET expired == k \in DOMAIN memory_cache
                                /\ memory_cache[k].expires_at <= now
              IN  /\ expired => /\ IsNone(TheVal(last_get').value)
                                /\ memory_cache' = Without(memory_cache, {k})
                  /\ ~expired => memory_cache' = memory_cache]_vars

\* C23 happens: the last get found its entry expired and removed it, and the
\* entry of the other key, expired as well, is still there
C23_Witness ==
    /\ ~IsNone(last_get)
    /\ IsNone(TheVal(last_get).value)
    /\ TheVal(last_get).t = now
    /\ LET k == TheVal(last_get).key
       IN  /\ k \notin DOMAIN memory_cache
           /\ k \in DOMAIN last_set
           /\ \E k2 \in DOMAIN memory_cache :
                 /\ memory_cache[k2].expires_at <= now
                 /\ k2 \in DOMAIN last_set
                 /\ last_set[k2].t0 <= last_set[k].t0
                 /\ last_set[k].t0 + TicksPerSecond * ExpireOrDefault(last_set[k].expire)
                       <= now
    /\ cache_stats.sets = 2
    /\ cache_stats.deletes = 0

\* C24: receiving an audio frame whose flags are 0 yields nothing and does
\* not end the stream, whatever its payload (its sequence bytes may read as a
\* negative number): the chunks yielded, collected and forwarded stay as they
\* were, the generator keeps running on the open connection and the call
\* stays in its receive loop.
C24_NoDataFrameSkipped ==
    [][\A c \in Calls : \A e \in ClientEvents :
          (IsNoData(e) /\ Recv(c, e)) =>
              /\ calls'[c].yielded = calls[c].yielded
              /\ calls'[c].audio_data = calls[c].audio_data
              /\ calls'[c].forwarded = calls[c].forwarded
              /\ calls'[c].pc = "receiving"
              /\ calls'[c].gen = calls[c].gen
              /\ calls'[c].conn = "open"
              /\ IsNone(calls'[c].error)]_vars

\* C24 happens: a frame with flags 0 and negative sequence bytes was received,
\* the loop went on, and the stream ended later with its terminal chunk
C24_Witness ==
    \E c \in Calls :
        /\ calls[c].nodata_seen
        /\ calls[c].end_cause = "terminal"
        /\ calls[c].nrecv = 2
        /\ calls[c].yielded = << << 9 >> >>
        /\ \E e \in ClientEvents : IsNoData(e) /\ e.seq < 0 /\ e.audio # << >>

\* C25: a supports_emotion that runs while reload_emotion_voices runs scans
\* the complete list installed when it read self.emotion_voices, or a
\* complete list installed since, and answers by it; the installed list is
\* at every moment a complete list, as the reload builds a new list and
\* installs it by one store.
C25_LookupSeesCompleteList ==
    /\ emotion_voices \in CompleteLists
    /\ lookup.pc # "idle" =>
          /\ lookup.list \in lookup.candidates
          /\ lookup.candidates \subseteq CompleteLists
    /\ lookup.pc = "done" =>
          \E L \in lookup.candidates :
              lookup.answer = supports_emotion(L, lookup.voice)

\* C25 happens: while a lookup was scanning, a reload installed a list that
\* answers otherwise; the lookup answered by the complete old list
C25_Witness ==
    /\ lookup.pc = "done"
    /\ ~lookup.attached
    /\ lookup.idx > 1
    /\ lookup.list # emotion_voices
    /\ lookup.answer = supports_emotion(lookup.list, lookup.voice)
    /\ lookup.answer # supports_emotion(emotion_voices, lookup.voice)

\* C26: a synthesize_text in which something failed (an error frame, a
\* stream that ended without its terminal chunk, a connection or persistence
\* failure) hands its caller no result: it ends by raising the exception
\* "synthesis failed" that carries the cause.
C26_FailureRaisesSynthesisFailed ==
    \A c \in Calls :
        calls[c].kind = "text" =>
            /\ (EndedIncomplete(c) \/ ~IsNone(calls[c].error_seen)) =>
                  /\ IsNone(calls[c].response)
                  /\ calls[c].pc \in {"returned", "failed"} => calls[c].pc = "failed"
            /\ calls[c].pc = "failed" =>
                  /\ IsNone(calls[c].response)
                  /\ calls[c].error[1] = "synthesis failed"
                  /\ calls[c].error[2] # << >>

\* C27: every response synthesize_text returns, that of a cache hit as well,
\* names a storage path at which a file with the audio exists, and its
\* public URL names the file the path names.
C27_ResultNamesPersistedFile ==
    \A c \in Calls :
        (calls[c].kind = "text" /\ calls[c].pc = "returned") =>
            LET response == TheVal(calls[c].response)
            IN  /\ response.file_path \in DOMAIN files
                /\ response.file_url.name = response.file_path.name

\* C28: the key string of the request of a call differs from the key string
\* of every request that differs from it in a parameter, also when a text or
\* a voice id holds "|" or ":".
C28_DistinctRequestsDistinctKeyStrings ==
    \A c \in Calls :
        calls[c].kind = "text" =>
            \A r \in CollidingRequests :
                ParamSet(r) # ParamSet(TheVal(calls[c].request)) =>
                    KeyString("tts", KeyArgs(r))
                        # KeyString("tts", KeyArgs(TheVal(calls[c].request)))

\* C29: after any sequence of voice-list requests, with or without
\* filters, an unfiltered request returns every category and every voice
\* that was loaded.
C29_FiltersLeaveVoiceData ==
    ~IsNone(voice_cache) =>
        VoiceListResponse(TheVal(voice_cache),
                          ListedCategories(TheVal(voice_cache), None)).categories
            = voice_loaded

\* C30: while CACHE_ENABLED is false, synthesize_text serves no result from
\* the cache and writes no cache entry: the cache stays empty and every call
\* that returned has opened a connection to the provider.
C30_CacheDisabledByFlag ==
    ~CACHE_ENABLED =>
        /\ DOMAIN memory_cache = {}
        /\ \A c \in Calls :
              calls[c].kind = "text" =>
                  /\ ~calls[c].hit
                  /\ calls[c].pc = "returned" => calls[c].opened = 1

=============================================================================
